---- MODULE Spec2Model ----
(***************************************************************************)
(* Model of the lbvh test support code:                                    *)
(*   - fake_task_scheduler (src/fake_thread_pool.h): a fork-join call that *)
(*     spawns max_threads - 1 threads, runs the last work division on the  *)
(*     caller and joins every thread;                                      *)
(*   - check_bvh / check_bvh_volumes (src/lbvh_test.cpp): the two-phase    *)
(*     validator of a built hierarchy.                                     *)
(***************************************************************************)
EXTENDS Integers, Sequences, FiniteSets, TLC

\* Largest number of internal nodes of a hierarchy handed to check_bvh.
MaxNodes == 3

\* Largest number of fields of a built hierarchy that are overwritten before
\* it is handed to check_bvh.
MaxCorrupt == 1

\* Largest worker-count limit given to the fake_task_scheduler constructor.
MaxThreads == 3

VARIABLES
  \* check_bvh
  bvh,          \* the hierarchy: node index -> [box, left, right]
  corrupted,    \* number of times the built hierarchy was overwritten
  phase,        \* "built", "checked" after one check_bvh call, "rechecked" after two
  errors_fatal, \* the flag of the last check_bvh call
  result,       \* what the last check_bvh call did
  earlier,      \* the flag and the status of the check_bvh call before the last
  \* fake_task_scheduler
  limit,        \* the constructor's argument
  max_threads,  \* the member max_threads
  pc,           \* where the caller of operator() is
  spawn_i,      \* the counter i of the spawning loop
  threads,      \* the vector threads: for each, its division and its state
  joined,       \* how many threads the joining loop has joined
  calls         \* the work divisions the task was invoked with, in order

validator_vars == <<bvh, corrupted, phase, errors_fatal, result, earlier>>
scheduler_vars == <<limit, max_threads, pc, spawn_i, threads, joined, calls>>
vars == <<bvh, corrupted, phase, errors_fatal, result, earlier,
          limit, max_threads, pc, spawn_i, threads, joined, calls>>

----------------------------------------------------------------------------
(* The hierarchy, as the validator reads it.                               *)

EXIT_SUCCESS == "EXIT_SUCCESS"
EXIT_FAILURE == "EXIT_FAILURE"

\* A float that compares false with everything (0 * inf, inf - inf).
NaN == -1

\* node.left / node.right: a tagged reference.  leaf = TRUE is what
\* left_is_leaf() / right_is_leaf() answer, idx is the node index or what
\* left_leaf_index() / right_leaf_index() extract.
NodeRef(i) == [leaf |-> FALSE, idx |-> i]
LeafRef(i) == [leaf |-> TRUE, idx |-> i]

\* bvh.size(): the number of internal nodes.
size(h) == Cardinality(DOMAIN h)

\* The box of a node is kept as its extent along each axis, what
\* detail::size_of(box) yields.
Box(x, y, z) == [x |-> x, y |-> y, z |-> z]

\* volume_of: size.x * size.y * size.z on floats.
volume_of(box) ==
  IF NaN \in {box.x, box.y, box.z} THEN NaN ELSE box.x * box.y * box.z

\* The comparison written the other way round.
volume_less_reversed(parent_volume, sub_volume) ==
  parent_volume # NaN /\ sub_volume # NaN /\ sub_volume < parent_volume

\* parent_volume < left_volume, parent_volume < right_volume: operator< on
\* two floats.
volume_less(parent_volume, sub_volume) ==
  parent_volume # NaN /\ sub_volume # NaN /\ parent_volume < sub_volume

----------------------------------------------------------------------------
(* check_bvh_volumes                                                       *)

\* One "Parent node ... volume is less than ... sub node" report.
VolumeReport(index, side, child) ==
  [kind |-> "volume", parent |-> index, side |-> side, child |-> child]

\* What a call did: the exit code when it returned, the exception or stack
\* exhaustion that ended it otherwise, the reports printed in order, and the
\* node indices check_bvh_volumes was entered with, in order.
Returned(code, out, visited) ==
  [raised |-> "none", exit_code |-> code, out |-> out, visited |-> visited]
Raised(what, out, visited) ==
  [raised |-> what, exit_code |-> "none", out |-> out, visited |-> visited]

\* The early return left out.
local_abort_never(errors, fatal) == FALSE

\* if (errors && errors_fatal) return EXIT_FAILURE;
local_abort(errors, fatal) == errors > 0 /\ fatal

\* After the left call: if (ret != EXIT_SUCCESS) { if (errors_fatal) return ret; ...
left_abort(ret, fatal) == ret # EXIT_SUCCESS /\ fatal

\* exit_code = ret; without the test of ret.
fold_exit_code_overwrite(exit_code, ret) == ret

\* if (ret != EXIT_SUCCESS) exit_code = ret;
fold_exit_code(exit_code, ret) == IF ret # EXIT_SUCCESS THEN ret ELSE exit_code

RECURSIVE check_bvh_volumes(_, _, _, _)
check_bvh_volumes(h, fatal, index, depth) ==
  IF index \notin DOMAIN h
  THEN Raised("out_of_range", <<>>, <<>>)            \* bvh.at(index) throws
  ELSE IF depth > size(h)
  THEN \* a node is on the call stack twice: the recursion never ends
       Raised("stack_overflow", <<>>, <<index>>)
  ELSE
  LET node == h[index]
      parent_volume == volume_of(node.box)
      left_throws == ~node.left.leaf /\ node.left.idx \notin DOMAIN h
      right_throws == ~node.right.leaf /\ node.right.idx \notin DOMAIN h
      left_bad == /\ ~node.left.leaf /\ ~left_throws
                  /\ volume_less(parent_volume, volume_of(h[node.left.idx].box))
      right_bad == /\ ~node.right.leaf /\ ~right_throws
                   /\ volume_less(parent_volume, volume_of(h[node.right.idx].box))
      left_out == IF left_bad
                  THEN <<VolumeReport(index, "left", node.left.idx)>> ELSE <<>>
      right_out == IF right_bad
                   THEN <<VolumeReport(index, "right", node.right.idx)>> ELSE <<>>
      out == left_out \o right_out
      errors == Len(out)
      exit_code == IF errors > 0 THEN EXIT_FAILURE ELSE EXIT_SUCCESS
  IN
  IF left_throws THEN Raised("out_of_range", <<>>, <<index>>)
  ELSE IF right_throws THEN Raised("out_of_range", left_out, <<index>>)
  ELSE IF local_abort(errors, fatal) THEN Returned(EXIT_FAILURE, out, <<index>>)
  ELSE
  LET L == IF ~node.left.leaf
           THEN check_bvh_volumes(h, fatal, node.left.idx, depth + 1)
           ELSE Returned(EXIT_SUCCESS, <<>>, <<>>)
      outL == out \o L.out
      visitedL == <<index>> \o L.visited
  IN
  IF L.raised # "none" THEN Raised(L.raised, outL, visitedL)
  ELSE IF left_abort(L.exit_code, fatal)
  THEN Returned(L.exit_code, outL, visitedL)
  ELSE
  LET exit_codeL == fold_exit_code(exit_code, L.exit_code)
      R == IF ~node.right.leaf
           THEN check_bvh_volumes(h, fatal, node.right.idx, depth + 1)
           ELSE Returned(EXIT_SUCCESS, <<>>, <<>>)
      outR == outL \o R.out
      visitedR == visitedL \o R.visited
  IN
  IF R.raised # "none" THEN Raised(R.raised, outR, visitedR)
  ELSE Returned(fold_exit_code(exit_codeL, R.exit_code), outR, visitedR)

----------------------------------------------------------------------------
(* check_bvh                                                               *)

\* The sequence <<a, a + 1, ..., b>> (empty when b < a): the values a loop
\* counter takes.
Indices(a, b) == [k \in 1..(b - a + 1) |-> a + k - 1]

Minimum(S) == CHOOSE x \in S : \A y \in S : x <= y

\* The reports of check_bvh.  The counters of the leaves include whatever
\* the read past the end of the node array adds, so a leaf report keeps the
\* fact that it was printed and nothing else.
RootReport(n) == [kind |-> "root", index |-> 0, count |-> n]
NodeReport(i, n) == [kind |-> "node", index |-> i, count |-> n]
LeafReport(i, n) == [kind |-> "leaf"]

\* Number of child fields among the nodes read that hold reference ref.
References(nodes, ref) ==
  Cardinality({i \in DOMAIN nodes : nodes[i].left = ref})
  + Cardinality({i \in DOMAIN nodes : nodes[i].right = ref})

\* node_counts after the first loop: one counter per internal node.
node_counts(h) ==
  [k \in 0..(size(h) - 1) |->
     References(h, NodeRef(k))]

\* The loop indices at which node_counts.at(...) throws std::out_of_range.
node_counts_throw(h) ==
  {i \in DOMAIN h :
     \/ ~h[i].left.leaf /\ h[i].left.idx \notin 0..(size(h) - 1)
     \/ ~h[i].right.leaf /\ h[i].right.idx \notin 0..(size(h) - 1)}

\* The limit of the second loop: for (i = 0; i < bvh.size() + 1; i++).
leaf_sweep_limit(h) == size(h) + 1

\* The loop indices of the second loop that lie past the end of the array.
past_the_end(h) == {i \in 0..(leaf_sweep_limit(h) - 1) : i \notin DOMAIN h}

\* What the second loop does while i < bvh.size(): the leaf counters it
\* leaves and the loop indices at which leaf_counts.at(...) throws.
leaf_sweep_within(h) ==
  [n |-> size(h),
   counts |-> [k \in 0..size(h) |->
                 References(h, LeafRef(k))],
   throw |-> {i \in DOMAIN h :
                \/ h[i].left.leaf /\ h[i].left.idx \notin 0..size(h)
                \/ h[i].right.leaf /\ h[i].right.idx \notin 0..size(h)},
   past |-> past_the_end(h)]

\* 1 when reading child reference ref increments leaf counter k, else 0.
Hit(ref, k) == IF ref.leaf /\ ref.idx = k THEN 1 ELSE 0

\* leaf_counts after the second loop: the counters left by the nodes of the
\* array, and what each read past the end adds.
leaf_counts(within, beyond) ==
  IF within.past = {} THEN within.counts
  ELSE [k \in 0..within.n |->
          within.counts[k] + Hit(beyond.left, k) + Hit(beyond.right, k)]

\* The loop indices at which leaf_counts.at(...) throws std::out_of_range.
leaf_counts_throw(within, beyond) ==
  IF \/ beyond.left.leaf /\ beyond.left.idx > within.n
     \/ beyond.right.leaf /\ beyond.right.idx > within.n
  THEN within.throw \cup within.past
  ELSE within.throw

\* What check_bvh did: as for check_bvh_volumes, with the node indices each
\* of the two sweeps read and the number of leaf counters allocated.
Outcome(r, node_sweep, leaf_sweep, leaf_size) ==
  [raised |-> r.raised, exit_code |-> r.exit_code, out |-> r.out,
   visited |-> r.visited, node_sweep |-> node_sweep,
   leaf_sweep |-> leaf_sweep, leaf_counts_size |-> leaf_size]

\* What the branch that reports node_counts[0] > 0 adds to errors when it
\* does not return: nothing.
root_errors(n) == 0

\* The first part of check_bvh, up to the allocation of leaf_counts: either
\* it ends the call, or it leaves the reports printed so far.
node_audit(h, fatal) ==
  LET n == size(h)
      nthrow == node_counts_throw(h)
      nc == node_counts(h)
      root_out == IF nc[0] > 0 THEN <<RootReport(nc[0])>> ELSE <<>>
      node_bad == SelectSeq(Indices(1, n - 1), LAMBDA i : nc[i] # 1)
      node_out == [k \in DOMAIN node_bad |-> NodeReport(node_bad[k], nc[node_bad[k]])]
      all_nodes == Indices(0, n - 1)
  IN
  IF nthrow # {}
  THEN [ended |-> TRUE,
        outcome |-> Outcome(Raised("out_of_range", <<>>, <<>>),
                            Indices(0, Minimum(nthrow)), <<>>, 0)]
  ELSE IF fatal /\ root_out # <<>>
  THEN [ended |-> TRUE,
        outcome |-> Outcome(Returned(EXIT_FAILURE, root_out, <<>>), all_nodes, <<>>, 0)]
  ELSE IF fatal /\ node_out # <<>>
  THEN [ended |-> TRUE,
        outcome |-> Outcome(Returned(EXIT_FAILURE, <<Head(node_out)>>, <<>>),
                            all_nodes, <<>>, 0)]
  ELSE [ended |-> FALSE, out |-> root_out \o node_out,
        errors |-> root_errors(nc[0]) + Len(node_out)]

\* The rest of check_bvh: the leaf sweep, the leaf check, check_bvh_volumes.
\* within and volumes are what the sweep over the nodes of the array and the
\* call of check_bvh_volumes yield; neither depends on beyond.
leaf_audit(fatal, beyond, before, within, volumes) ==
  LET n == within.n
      all_nodes == Indices(0, n - 1)
      lthrow == leaf_counts_throw(within, beyond)
      lc == leaf_counts(within, beyond)
      lread == Indices(0, n - 1) \o [k \in 1..Cardinality(within.past) |-> n + k - 1]
      leaf_bad == SelectSeq(Indices(0, n), LAMBDA i : lc[i] # 1)
      leaf_out == [k \in DOMAIN leaf_bad |-> LeafReport(leaf_bad[k], lc[leaf_bad[k]])]
      errors == before.errors + Len(leaf_out)
  IN
  IF lthrow # {}
  THEN Outcome(Raised("out_of_range", before.out, <<>>),
               all_nodes, Indices(0, Minimum(lthrow)), n + 1)
  ELSE IF fatal /\ leaf_out # <<>>
  THEN Outcome(Returned(EXIT_FAILURE, <<Head(leaf_out)>>, <<>>),
               all_nodes, lread, n + 1)
  ELSE IF errors > 0
  THEN Outcome(Returned(EXIT_FAILURE, before.out \o leaf_out, <<>>),
               all_nodes, lread, n + 1)
  ELSE Outcome([volumes EXCEPT !.out = before.out \o @], all_nodes, lread, n + 1)

\* The outcomes of check_bvh(bvh, errors_fatal), one for each thing the
\* memory past the end of the node array can hold when it is read.
check_bvh(h, fatal, memory) ==
  LET before == node_audit(h, fatal)
      within == leaf_sweep_within(h)
      volumes == check_bvh_volumes(h, fatal, 0, 1)
  IN IF before.ended THEN {before.outcome}
     ELSE {leaf_audit(fatal, beyond, before, within, volumes) : beyond \in memory}

----------------------------------------------------------------------------
(* The hierarchies handed to check_bvh.                                    *)

\* The subtrees with n internal nodes numbered from first in pre-order, over
\* the leaves leaf0 .. leaf0 + n in order; the box of a node is as long as
\* the number of leaves below it.
RECURSIVE Subtrees(_, _, _)
Subtrees(first, leaf0, n) ==
  IF n = 0 THEN {<<>>}
  ELSE UNION {
    {(first :> [box |-> Box(n + 1, 1, 1),
                left |-> IF k = 0 THEN LeafRef(leaf0) ELSE NodeRef(first + 1),
                right |-> IF n - 1 - k = 0 THEN LeafRef(leaf0 + k + 1)
                          ELSE NodeRef(first + 1 + k)]) @@ l @@ r :
       l \in Subtrees(first + 1, leaf0, k),
       r \in Subtrees(first + 1 + k, leaf0 + k + 1, n - 1 - k)} :
    k \in 0..(n - 1)}

\* What builder(...) returns: a binary tree over P - 1 internal nodes, root 0.
BuiltHierarchies == UNION {Subtrees(0, 0, n) : n \in 1..MaxNodes}

\* The values a child reference is overwritten with: every internal node and
\* every leaf.
RefValues(h) ==
  {NodeRef(k) : k \in 0..(size(h) - 1)} \cup {LeafRef(k) : k \in 0..size(h)}

\* The values a box is overwritten with: a degenerate box, a box larger than
\* any built one, and a box whose volume is not a number.
BoxValues(h) == {Box(0, 1, 1), Box(size(h) + 2, 1, 1), Box(NaN, 1, 1)}

\* The child fields of a hierarchy.
Fields(h) == (DOMAIN h) \X {"left", "right"}

\* h with the child fields p and q exchanged.
Exchange(h, p, q) ==
  [k \in DOMAIN h |->
     [f \in {"box", "left", "right"} |->
        IF <<k, f>> = p THEN h[q[1]][q[2]]
        ELSE IF <<k, f>> = q THEN h[p[1]][p[2]] ELSE h[k][f]]]

\* What the read past the end of the node array can yield: a node whose
\* children are each an internal-node reference, a leaf reference in range,
\* or a leaf reference out of range.  The sweep treats the two children
\* alike, so each unordered pair is listed once.
GarbageRefs(h) == {NodeRef(0)} \cup {LeafRef(k) : k \in 0..(size(h) + 1)}
RefKey(ref) == IF ref.leaf THEN ref.idx + 1 ELSE 0
GarbageNodes(h) ==
  {n \in {[box |-> Box(0, 0, 0), left |-> l, right |-> r] :
            l \in GarbageRefs(h), r \in GarbageRefs(h)} :
     RefKey(n.left) <= RefKey(n.right)}

NoResult == [raised |-> "not_run"]

\* No scheduler call is under way.
SchedulerIdle ==
  /\ limit = 0 /\ max_threads = 0 /\ pc = "idle" /\ spawn_i = 0
  /\ threads = <<>> /\ joined = 0 /\ calls = <<>>

Init ==
  /\ bvh \in BuiltHierarchies
  /\ corrupted = 0
  /\ phase = "built"
  /\ errors_fatal = FALSE
  /\ result = NoResult
  /\ earlier = NoResult
  /\ SchedulerIdle

\* The built hierarchies with two child fields exchanged.
RelinkedHierarchies ==
  UNION {{Exchange(h, p, q) : p \in Fields(h), q \in Fields(h)} : h \in BuiltHierarchies}

InitRelinked ==
  /\ bvh \in RelinkedHierarchies
  /\ corrupted = 0
  /\ phase = "built"
  /\ errors_fatal = FALSE
  /\ result = NoResult
  /\ earlier = NoResult
  /\ SchedulerIdle

SetLeft ==
  /\ phase = "built" /\ corrupted < MaxCorrupt
  /\ \E n \in DOMAIN bvh, ref \in RefValues(bvh) :
       /\ ref # bvh[n].left
       /\ bvh' = [bvh EXCEPT ![n].left = ref]
  /\ corrupted' = corrupted + 1
  /\ UNCHANGED <<phase, errors_fatal, result, earlier>>
  /\ UNCHANGED scheduler_vars

SetRight ==
  /\ phase = "built" /\ corrupted < MaxCorrupt
  /\ \E n \in DOMAIN bvh, ref \in RefValues(bvh) :
       /\ ref # bvh[n].right
       /\ bvh' = [bvh EXCEPT ![n].right = ref]
  /\ corrupted' = corrupted + 1
  /\ UNCHANGED <<phase, errors_fatal, result, earlier>>
  /\ UNCHANGED scheduler_vars

Swap ==
  /\ phase = "built" /\ corrupted < MaxCorrupt
  /\ \E p \in Fields(bvh), q \in Fields(bvh) :
       /\ bvh[p[1]][p[2]] # bvh[q[1]][q[2]]
       /\ bvh' = Exchange(bvh, p, q)
  /\ corrupted' = corrupted + 1
  /\ UNCHANGED <<phase, errors_fatal, result, earlier>>
  /\ UNCHANGED scheduler_vars

SetBox ==
  /\ phase = "built" /\ corrupted < MaxCorrupt
  /\ \E n \in DOMAIN bvh, v \in BoxValues(bvh) :
       /\ v # bvh[n].box
       /\ bvh' = [bvh EXCEPT ![n].box = v]
  /\ corrupted' = corrupted + 1
  /\ UNCHANGED <<phase, errors_fatal, result, earlier>>
  /\ UNCHANGED scheduler_vars

\* run_test: auto result = check_bvh(bvh, errors_fatal);
Validate ==
  /\ phase = "built"
  /\ \E fatal \in BOOLEAN :
       /\ errors_fatal' = fatal
       /\ result' \in check_bvh(bvh, fatal, GarbageNodes(bvh))
  /\ phase' = "checked"
  /\ UNCHANGED <<bvh, corrupted, earlier>>
  /\ UNCHANGED scheduler_vars

\* check_bvh called twice in one process on the same hierarchy, once with
\* each value of errors_fatal: both calls read the same memory.
ValidateBoth ==
  /\ phase = "built"
  /\ \E beyond \in GarbageNodes(bvh) :
       /\ \E first \in check_bvh(bvh, TRUE, {beyond}) :
            earlier' = [errors_fatal |-> TRUE, raised |-> first.raised,
                        exit_code |-> first.exit_code]
       /\ result' \in check_bvh(bvh, FALSE, {beyond})
  /\ errors_fatal' = FALSE
  /\ phase' = "rechecked"
  /\ UNCHANGED <<bvh, corrupted>>
  /\ UNCHANGED scheduler_vars

Next == SetLeft \/ SetRight \/ Swap \/ SetBox \/ Validate

Spec == Init /\ [][Next]_vars

NextRelinked == SetLeft \/ SetRight \/ Swap \/ SetBox \/ Validate \/ ValidateBoth

SpecRelinked == InitRelinked /\ [][NextRelinked]_vars

----------------------------------------------------------------------------
(* Properties of check_bvh.                                                *)

\* check_bvh has run.
Ran == phase \in {"checked", "rechecked"}

\* check_bvh returned: no exception left it and the stack did not run out.
ReturnedStatus == Ran /\ result.raised = "none"

\* check_bvh_volumes was entered.
Audited == Ran /\ result.visited # <<>>

Range(seq) == {seq[k] : k \in DOMAIN seq}

NoRepeats(seq) == \A k, l \in DOMAIN seq : k # l => seq[k] # seq[l]

\* The children of node n that are internal nodes.
InternalChildren(h, n) ==
  {c \in DOMAIN h : \/ ~h[n].left.leaf /\ h[n].left.idx = c
                    \/ ~h[n].right.leaf /\ h[n].right.idx = c}

\* The nodes that can be reached from the nodes of S by child references.
RECURSIVE Reach(_, _)
Reach(h, S) ==
  LET T == S \cup UNION {InternalChildren(h, n) : n \in S}
  IN IF T = S THEN S ELSE Reach(h, T)

Reachable(h) == Reach(h, {0})

LeftSubtree(h, n) ==
  IF ~h[n].left.leaf /\ h[n].left.idx \in DOMAIN h
  THEN Reach(h, {h[n].left.idx}) ELSE {}

RightSubtree(h, n) ==
  IF ~h[n].right.leaf /\ h[n].right.idx \in DOMAIN h
  THEN Reach(h, {h[n].right.idx}) ELSE {}

\* a < b on floats: false when either is not a number.
FloatLT(a, b) == a # NaN /\ b # NaN /\ a < b

\* Node n has an internal child whose volume exceeds its own.
LocalViolation(h, n) ==
  \E c \in InternalChildren(h, n) : FloatLT(volume_of(h[n].box), volume_of(h[c].box))

\* How often ref occurs among the child fields of the hierarchy.
RefCount(h, ref) ==
  Cardinality({n \in DOMAIN h : h[n].left = ref})
  + Cardinality({n \in DOMAIN h : h[n].right = ref})

\* The reference counts of a tree: the root is no one's child, every other
\* internal node and every leaf is the child of exactly one node.
SoundCounts(h) ==
  /\ RefCount(h, NodeRef(0)) = 0
  /\ \A n \in DOMAIN h \ {0} : RefCount(h, NodeRef(n)) = 1
  /\ \A l \in 0..size(h) : RefCount(h, LeafRef(l)) = 1

\* The nodes below and including n in pre-order, cut off at depth fuel.
RECURSIVE Preorder(_, _, _)
Preorder(h, n, fuel) ==
  IF fuel = 0 \/ n \notin DOMAIN h THEN <<>>
  ELSE <<n>>
       \o (IF h[n].left.leaf THEN <<>> ELSE Preorder(h, h[n].left.idx, fuel - 1))
       \o (IF h[n].right.leaf THEN <<>> ELSE Preorder(h, h[n].right.idx, fuel - 1))

\* The pre-order from the root up to and including the first node that has a
\* violating child (all of it when there is none).
PreorderToViolation(h) ==
  LET P == Preorder(h, 0, size(h))
      bad == {k \in DOMAIN P : LocalViolation(h, P[k])}
  IN IF bad = {} THEN P ELSE SubSeq(P, 1, Minimum(bad))

\* The node at which the first volume report was printed.
ReportedAt == (SelectSeq(result.out, LAMBDA r : r.kind = "volume"))[1].parent

\* C3, as stated: whenever check_bvh returns EXIT_SUCCESS, every internal
\* node of the hierarchy, reachable from the root or not, has no internal
\* child of a larger volume.
C3_EveryNode ==
  (ReturnedStatus /\ result.exit_code = EXIT_SUCCESS) =>
    \A n \in DOMAIN bvh : ~LocalViolation(bvh, n)

\* C3, amended: whenever check_bvh returns EXIT_SUCCESS, for every internal
\* node n reachable from the root and each internal child c of n,
\* volume(n) < volume(c) is false.
C3_ReachableNodes ==
  (ReturnedStatus /\ result.exit_code = EXIT_SUCCESS) =>
    \A n \in Reachable(bvh) : ~LocalViolation(bvh, n)

\* check_bvh returned EXIT_SUCCESS for an overwritten hierarchy after
\* comparing a node with an internal child.
C3_Witness ==
  /\ ReturnedStatus /\ result.exit_code = EXIT_SUCCESS
  /\ corrupted > 0
  /\ Len(result.visited) >= 2

\* C4: check_bvh returns EXIT_SUCCESS only for a hierarchy in which the root
\* is referenced by no node and every other internal node and every leaf by
\* exactly one.
C4_SuccessOnlyIfSound ==
  (ReturnedStatus /\ result.exit_code = EXIT_SUCCESS) => SoundCounts(bvh)

\* C5: with errors_fatal set, a check_bvh call that returns EXIT_FAILURE has
\* printed exactly one report.
C5_OneReport ==
  (ReturnedStatus /\ errors_fatal /\ result.exit_code = EXIT_FAILURE) =>
    Len(result.out) = 1

\* C6, as stated: with errors_fatal clear, when check_bvh_volumes is entered
\* and returns, it has visited every internal node of the hierarchy exactly
\* once, and the status is EXIT_FAILURE iff some node of the hierarchy has a
\* violating child.
C6_EveryNodeVisited ==
  (Audited /\ ReturnedStatus /\ ~errors_fatal) =>
    /\ NoRepeats(result.visited)
    /\ Range(result.visited) = DOMAIN bvh
    /\ result.exit_code = EXIT_FAILURE <=> \E n \in DOMAIN bvh : LocalViolation(bvh, n)

\* C6, amended: with errors_fatal clear, check_bvh_volumes visits only nodes
\* reachable from the root, and when it returns it has visited each of them
\* exactly once and the status is EXIT_FAILURE iff a reachable node has a
\* violating child.
C6_ReachableVisited ==
  (Audited /\ ~errors_fatal) =>
    /\ Range(result.visited) \subseteq Reachable(bvh)
    /\ ReturnedStatus =>
         /\ NoRepeats(result.visited)
         /\ Range(result.visited) = Reachable(bvh)
         /\ result.exit_code = EXIT_FAILURE
              <=> \E n \in Reachable(bvh) : LocalViolation(bvh, n)

\* With errors_fatal clear a violation was reported and the descent went on
\* through the nodes after it.
C6_Witness ==
  /\ Audited /\ ReturnedStatus /\ ~errors_fatal
  /\ result.exit_code = EXIT_FAILURE
  /\ LocalViolation(bvh, result.visited[1])
  /\ Len(result.visited) >= 3

\* C7: check_bvh returns the same status for a hierarchy whether
\* errors_fatal is set or clear.
C7_SameVerdict ==
  (phase = "rechecked" /\ earlier.raised = "none" /\ result.raised = "none") =>
    earlier.exit_code = result.exit_code

C9_ReadsInRange ==
  Ran =>
    /\ \A k \in Range(result.node_sweep) \cup Range(result.leaf_sweep) : k < size(bvh)
    /\ result.leaf_sweep # <<>> => result.leaf_counts_size = size(bvh) + 1

\* C10: check_bvh_volumes never revisits a node that is on its call stack:
\* no check_bvh call on a hierarchy with child references in range runs out
\* of stack.
C10_NoEndlessRecursion ==
  Ran => result.raised # "stack_overflow"

----------------------------------------------------------------------------
(* fake_task_scheduler                                                     *)

\* work_division { index, max }
work_division(index, count) == [index |-> index, count |-> count]

\* The constructor: max_threads(max_threads_ ? max_threads_ : 1).
fake_task_scheduler(max_threads_) == IF max_threads_ # 0 THEN max_threads_ ELSE 1

\* The loop running to max_threads: i < max_threads.
spawn_more_inclusive(counter, max) == counter < max

\* The condition of the spawning loop: i < max_threads - 1.
spawn_more(counter, max) == counter < max - 1

\* The division the caller runs itself: { max_threads - 1, max_threads }.
caller_division(max) == work_division(max - 1, max)

\* No hierarchy is being checked.
ValidatorIdle ==
  /\ bvh = <<>> /\ corrupted = 0 /\ phase = "idle" /\ errors_fatal = FALSE
  /\ result = NoResult /\ earlier = NoResult

SchedInit ==
  /\ limit \in 0..MaxThreads
  /\ max_threads = fake_task_scheduler(limit)
  /\ pc = "spawn"
  /\ spawn_i = 0
  /\ threads = <<>>
  /\ joined = 0
  /\ calls = <<>>
  /\ ValidatorIdle

\* threads.emplace_back(task, div, args...): the thread exists from here on.
Spawn ==
  /\ pc = "spawn" /\ spawn_more(spawn_i, max_threads)
  /\ threads' = Append(threads, [div |-> work_division(spawn_i, max_threads),
                                 state |-> "started"])
  /\ spawn_i' = spawn_i + 1
  /\ UNCHANGED <<limit, max_threads, pc, joined, calls>>
  /\ UNCHANGED validator_vars

\* A spawned thread enters the task with its division.
ThreadBegin(t) ==
  /\ t \in DOMAIN threads
  /\ threads[t].state = "started"
  /\ threads' = [threads EXCEPT ![t].state = "running"]
  /\ calls' = Append(calls, threads[t].div)
  /\ UNCHANGED <<limit, max_threads, pc, spawn_i, joined>>
  /\ UNCHANGED validator_vars

\* The task returns in a spawned thread.
ThreadEnd(t) ==
  /\ t \in DOMAIN threads
  /\ threads[t].state = "running"
  /\ threads' = [threads EXCEPT ![t].state = "done"]
  /\ UNCHANGED <<limit, max_threads, pc, spawn_i, joined, calls>>
  /\ UNCHANGED validator_vars

\* The task never returns in a spawned thread.
ThreadHang(t) ==
  /\ t \in DOMAIN threads
  /\ threads[t].state = "running"
  /\ threads' = [threads EXCEPT ![t].state = "hung"]
  /\ UNCHANGED <<limit, max_threads, pc, spawn_i, joined, calls>>
  /\ UNCHANGED validator_vars

\* task(work_division { max_threads - 1, max_threads }, args...): the caller
\* enters the task once the spawning loop has ended.
Invoke ==
  /\ pc = "spawn" /\ ~spawn_more(spawn_i, max_threads)
  /\ calls' = Append(calls, caller_division(max_threads))
  /\ pc' = "task"
  /\ UNCHANGED <<limit, max_threads, spawn_i, threads, joined>>
  /\ UNCHANGED validator_vars

\* The task returns in the caller, which goes on to the joining loop.
TaskReturn ==
  /\ pc = "task"
  /\ pc' = "join"
  /\ UNCHANGED <<limit, max_threads, spawn_i, threads, joined, calls>>
  /\ UNCHANGED validator_vars

\* The task never returns in the caller.
TaskHang ==
  /\ pc = "task"
  /\ pc' = "hung"
  /\ UNCHANGED <<limit, max_threads, spawn_i, threads, joined, calls>>
  /\ UNCHANGED validator_vars

\* th.detach() in place of th.join(): the caller never waits.
joinable_always(thread) == TRUE

\* Whether th.join() returns: the thread has finished.
joinable(thread) == thread.state = "done"

\* for (auto& th : threads) th.join();
Join ==
  /\ pc = "join" /\ joined < Len(threads)
  /\ joinable(threads[joined + 1])
  /\ joined' = joined + 1
  /\ UNCHANGED <<limit, max_threads, pc, spawn_i, threads, calls>>
  /\ UNCHANGED validator_vars

\* operator() returns after the joining loop.
Return ==
  /\ pc = "join" /\ joined = Len(threads)
  /\ pc' = "returned"
  /\ UNCHANGED <<limit, max_threads, spawn_i, threads, joined, calls>>
  /\ UNCHANGED validator_vars

SchedNext ==
  \/ Spawn \/ Invoke \/ TaskReturn \/ TaskHang \/ Join \/ Return
  \/ \E t \in DOMAIN threads : ThreadBegin(t) \/ ThreadEnd(t) \/ ThreadHang(t)

\* Every thread that can take a step takes it; a task may still hang.
SchedFairness ==
  /\ WF_vars(Spawn) /\ WF_vars(Invoke) /\ WF_vars(TaskReturn)
  /\ WF_vars(Join) /\ WF_vars(Return)
  /\ \A t \in 1..MaxThreads : WF_vars(ThreadBegin(t)) /\ WF_vars(ThreadEnd(t))

SchedSpec == SchedInit /\ [][SchedNext]_vars /\ SchedFairness

----------------------------------------------------------------------------
(* Properties of fake_task_scheduler.                                      *)

\* The number of divisions for worker-count limit W: W, or 1 when W = 0.
Divisions(W) == IF W > 0 THEN W ELSE 1

\* C1: the task is never invoked twice with the same index, every invocation
\* gets count = W' and an index in 0..W'-1, W' - 1 threads are spawned, and
\* when operator() returns the task has been invoked exactly W' times, with
\* the indices 0..W'-1.
C1_EveryDivisionOnce ==
  /\ NoRepeats(calls)
  /\ \A k \in DOMAIN calls :
       calls[k].count = Divisions(limit) /\ calls[k].index \in 0..(Divisions(limit) - 1)
  /\ Len(threads) <= Divisions(limit) - 1
  /\ pc = "returned" =>
       /\ Len(calls) = Divisions(limit)
       /\ {calls[k].index : k \in DOMAIN calls} = 0..(Divisions(limit) - 1)
       /\ Len(threads) = Divisions(limit) - 1

\* operator() returned after the caller entered the task before any spawned
\* thread did.
C1_Witness ==
  /\ pc = "returned" /\ limit >= 3
  /\ calls[1] = caller_division(max_threads)

\* Every invocation of the task has returned.
AllDone ==
  /\ pc \in {"join", "returned"}
  /\ Len(calls) = Divisions(limit)
  /\ \A t \in DOMAIN threads : threads[t].state = "done"

\* Some invocation of the task never returns.
SomeHung == pc = "hung" \/ \E t \in DOMAIN threads : threads[t].state = "hung"

\* C2: operator() does not return before every invocation has returned, the
\* caller joins no thread before its own invocation has returned, and the
\* call returns unless an invocation never does.
C2_Barrier ==
  /\ [](pc = "returned" => AllDone)
  /\ [](joined > 0 =>
          /\ pc \in {"join", "returned"}
          /\ \E k \in DOMAIN calls : calls[k] = caller_division(Divisions(limit)))
  /\ (<>(pc = "returned") \/ <>SomeHung)

\* operator() returned after joining two threads.
C2_Witness ==
  /\ pc = "returned" /\ joined >= 2

====
